---- MODULE Spec2Model ----
(***************************************************************************)
(* The render job queue (JobQueue, src/unnamed/part_011) driving the       *)
(* Puppeteer renderer (PuppeteerRenderer, src/unnamed/part_013).           *)
(*                                                                         *)
(* One step of the model is one run-to-completion segment of the Node.js   *)
(* event loop: a call of a public method up to its first await, the        *)
(* continuation of processQueue after its one-second sleep, the            *)
(* continuation of renderGLB / renderVideo / renderGIF after an awaited    *)
(* browser or file-system call has resolved (browser.newPage,              *)
(* fs.ensureDir, fs.remove), the continuation of processRenderJob /        *)
(* processBatchJob after renderGLB has settled, or a microtask (no timer   *)
(* fires before it has run): the continuation of processJob after the      *)
(* promise it awaits has settled, or of processBatchJob after a renderGLB  *)
(* call that was refused.                                                  *)
(***************************************************************************)
EXTENDS Integers, Sequences, FiniteSets, TLC

----------------------------------------------------------------------------
(* Bounds of the model *)

MaxJobs == 3
MaxLoops == 2
MaxClock == 1
MaxReports == 2
MaxFiles == 2
MaxRequests == 3
MaxLaunches == 2
MaxCleanups == 2

(* Program constants *)

concurrency == 2
GifMaxDuration == 3
GifMaxFps == 15
FullTurn == 360

(* options.duration is a number of seconds; the model carries it in        *)
(* quarters of a second so that non-integer duration * fps products occur. *)
DurDen == 4

----------------------------------------------------------------------------
VARIABLES
    jobs,          \* this.jobs: Map key -> job object (objects are numbered 1..MaxJobs)
    queue,         \* this.queue: sequence of job objects
    isProcessing,  \* this.isProcessing
    activeJobs,    \* this.activeJobs
    renderer,      \* this.renderer is set
    obj,           \* the fields of every job object ever created
    uuids,         \* number of uuidv4() values drawn so far
    loops,         \* number of processQueue invocations suspended in sleep(1000)
    running,       \* job objects whose processJob awaits renderer.renderGLB
    clock,         \* the value new Date() / Date.now() returns
    env,           \* the environment of this run (see Environments)
    hist,          \* per job object, the values assigned to job.status, in order
    rlog,          \* per job object, what its renderGLB call did with the page
    temp,          \* the directories that exist under storage/temp
    frameDir,      \* per job object, the frameDir of its renderVideo / renderGIF call
    plog,          \* per job object, the values assigned to job.progress, in order
    stopped,       \* stop() was called and start() has not been called since
    batch,         \* per job object, the renderGLB calls and the results array of its processBatchJob
    pages,         \* job objects whose renderGLB call has a page open in the renderer's browser
    route,         \* browserInstance of src/src/routes/render.js and the browsers it launched
    micro,         \* settled promises processJob / processBatchJob await, oldest first, with what each settled with
    rejected,      \* a processJob promise was rejected (nothing handles it)
    browser,       \* the renderer: this.browser, the browsers launched that are connected, the cleanup() calls that await browser.close()
    glbCall,       \* per job object, how far the renderGLB call it awaits has come
    maker          \* per directory under storage/temp, the job object whose fs.ensureDir made it

vars == <<jobs, queue, isProcessing, activeJobs, renderer, obj, uuids, loops,
          running, clock, env, hist, rlog, temp, frameDir, plog,
          stopped, batch, pages, route, micro, rejected, browser, glbCall,
          maker>>

Objs == 1..MaxJobs

Never == 0 - 1
NoId == <<"none">>
CustomId == <<"custom", 1>>
uuidv4(n) == <<"uuid", n>>
Keys == {uuidv4(n) : n \in Objs} \cup {CustomId}

NullResult == [kind |-> "null"]
NullError == "null"
NoLog == [mode |-> "none"]
NoDir == [prefix |-> "none", now |-> Never]

Last(s) == s[Len(s)]
SeqToSet(s) == {s[i] : i \in 1..Len(s)}
Min(a, b) == IF a < b THEN a ELSE b

(* A file name, as path.parse splits it: `${dir}/${name}.${ext}` *)
File(dir, name, ext) == [dir |-> dir, name |-> name, ext |-> ext]
NoFile == File("", "none", "")
ModelFile == File("", "model", "glb")

----------------------------------------------------------------------------
(* Render options as POST /api/render builds them (src/src/server.js)      *)

Options(format, turntable, views, durQ, fps) ==
    [format |-> format, turntable |-> turntable, views |-> views,
     durQ |-> durQ, fps |-> fps]

OptStillAll == Options("png", FALSE, <<"all">>, 20, 30)
OptStillPair == Options("png", FALSE, <<"front", "custom">>, 20, 30)
OptVideo == Options("mp4", FALSE, <<"perspective">>, 8, 10)
OptTurntable == Options("png", TRUE, <<"perspective">>, 5, 5)
OptGifLong == Options("gif", FALSE, <<"perspective">>, 20, 2)
OptGifFast == Options("png", FALSE, <<"animated">>, 1, 20)

JobData(id, type, options) ==
    [id |-> id, type |-> type, fileName |-> ModelFile, options |-> options]

(* jobData that carries the fields addJob sets itself *)
JobDataWithState(id, type, options) ==
    [id |-> id, type |-> type, fileName |-> ModelFile, options |-> options,
     status |-> "completed", progress |-> 100,
     result |-> [success |-> TRUE, results |-> <<>>], error |-> "forged"]

(* The files array of a batch job *)
BatchFiles ==
    SubSeq(<<File("", "a", "glb"), File("", "b", "glb"), File("", "c", "glb"),
             File("", "d", "glb")>>, 1, MaxFiles)

BatchData(id, files, options) ==
    [id |-> id, type |-> "batch", fileName |-> NoFile, files |-> files,
     options |-> options]

----------------------------------------------------------------------------
(* PuppeteerRenderer                                                       *)

(* What the browser page, the file system and ffmpeg do during one         *)
(* renderGLB call: which calls reject.                                     *)
Faults(init, load, views, frame, encoder) ==
    [init |-> init, load |-> load, views |-> views, frame |-> frame,
     encoder |-> encoder]

NoFault == Faults(FALSE, FALSE, {}, Never, FALSE)

AllViewsFail ==
    Faults(FALSE, FALSE,
           {"front", "side", "top", "perspective", "back", "bottom", "custom"},
           Never, FALSE)

(* A renderer that has not been initialized *)
NotInitialized == Faults(TRUE, FALSE, {}, Never, FALSE)

(* page.goto / the wait for the model rejects *)
LoadFails == Faults(FALSE, TRUE, {}, Never, FALSE)

(* ffmpeg fails *)
EncoderFails == Faults(FALSE, FALSE, {}, Never, TRUE)

(* The page calls of frame number frame reject, or its fs.writeFile *)
FailAt(frame) == Faults(FALSE, FALSE, {}, frame, FALSE)

(* The page calls of views[i] and of every later view reject *)
ViewsFailFrom(views, i) ==
    Faults(FALSE, FALSE, {views[k] : k \in i..Len(views)}, Never, FALSE)

Events ==
    {"jobAdded", "jobStarted", "jobProgress", "jobCompleted", "jobFailed",
     "jobCancelled"}

(* A run's environment: the jobData its clients submit (at most cap jobs), *)
(* the ways its renderGLB calls may go wrong, the events that have a       *)
(* listener that may throw, and how far the clock advances during the run. *)
(* launches is the number of initialize() calls of the renderer.           *)
Environment(in, faults, throwing, cap, time) ==
    [inputs |-> in, faults |-> faults, throwing |-> throwing, cap |-> cap,
     time |-> time, reports |-> {}, loops |-> MaxLoops, launches |-> 1,
     requests |-> 0, stops |-> TRUE, cleans |-> FALSE]

(* An environment whose renderer calls options.progressCallback with the   *)
(* given values.                                                           *)
Reporting(e, values) == [e EXCEPT !.reports = values]

(* An environment whose clients never have two processQueue invocations    *)
(* sleeping at once.                                                       *)
OneLoop(e) == [e EXCEPT !.loops = 1]

(* An environment whose server is never shut down: stop() is not called *)
NeverStopped(e) == [e EXCEPT !.stops = FALSE]

(* An environment whose server is shut down: its SIGTERM handler awaits    *)
(* the renderer's cleanup() and then calls stop() on the queue. Its        *)
(* clients also call initialize() again, at any time.                      *)
Cleaning(e) ==
    [e EXCEPT !.cleans = TRUE, !.stops = TRUE, !.launches = MaxLaunches]

(* An environment whose clients post to the render route of                *)
(* src/src/routes/render.js, reaching puppeteer.launch at most n times.    *)
Routes(e, n) == [e EXCEPT !.requests = n]

(* jobData.id is absent, a string of the client's own, or a key an earlier *)
(* addJob call returned to the client.                                     *)
Environments ==
    { Environment({JobData(NoId, "render", OptStillPair),
                   JobData(NoId, "export", OptStillPair)},
                  {NoFault, Faults(TRUE, FALSE, {}, Never, FALSE)}, {}, MaxJobs, 0),
      Environment({JobData(NoId, "render", OptStillPair)},
                  {NoFault, Faults(FALSE, TRUE, {}, Never, FALSE)},
                  Events, MaxJobs - 1, 0),
      Environment({JobData(NoId, "render", OptStillPair),
                   JobData(CustomId, "render", OptStillPair)},
                  {NoFault}, {}, MaxJobs - 1, 0),
      Environment({JobDataWithState(CustomId, "render", OptStillPair)},
                  {NoFault}, {}, MaxJobs - 2, MaxClock),
      Environment({JobData(NoId, "render", OptStillAll),
                   JobData(NoId, "render", OptStillPair)},
                  {NoFault, Faults(FALSE, FALSE, {"top", "back"}, Never, FALSE),
                   Faults(FALSE, FALSE, {"custom"}, Never, FALSE), AllViewsFail},
                  {}, MaxJobs - 1, 0),
      NeverStopped(OneLoop(Environment({JobData(NoId, "render", OptVideo),
                                        JobData(NoId, "render", OptGifFast)},
                                       {NoFault, Faults(FALSE, FALSE, {}, 5, FALSE),
                                        Faults(FALSE, FALSE, {}, Never, TRUE)},
                                       {}, concurrency, 0))),
      NeverStopped(OneLoop(Environment({JobData(NoId, "render", OptGifLong),
                                        JobData(NoId, "render", OptTurntable)},
                                       {NoFault, Faults(FALSE, FALSE, {}, 0, FALSE),
                                        Faults(FALSE, FALSE, {}, 1, FALSE),
                                        Faults(FALSE, FALSE, {}, Never, TRUE)},
                                       {}, concurrency, 0))),
      NeverStopped(Environment({JobData(NoId, "render", OptStillPair)},
                               {NoFault}, {}, MaxJobs - 1, MaxClock)),
      NeverStopped(OneLoop(Reporting(Environment({JobData(NoId, "render", OptStillPair)},
                                                 {NoFault, LoadFails},
                                                 {}, MaxJobs - 2, 0),
                                     {0 - 5, 50, 120}))),
      NeverStopped(OneLoop(Environment({JobData(CustomId, "render", OptStillPair),
                                        JobData(uuidv4(1), "render", OptStillPair),
                                        JobData(NoId, "render", OptStillPair)},
                                       {NoFault}, {}, concurrency + 1, 0))),
      NeverStopped(OneLoop(Environment({BatchData(NoId, BatchFiles, OptStillPair),
                                        JobData(NoId, "batch", OptStillPair)},
                                       {NoFault, LoadFails},
                                       {"jobProgress", "jobCompleted"},
                                       MaxJobs - 2, 0))),
      Cleaning(OneLoop(
          Environment({JobData(NoId, "render", OptStillPair),
                       JobData(NoId, "render", OptTurntable),
                       BatchData(NoId, SubSeq(BatchFiles, 1, 2), OptStillPair)},
                      {NoFault}, {}, concurrency - 1, 0))),
      Routes(Environment({}, {NoFault}, {}, 0, 0), MaxRequests) }

(* The maxAge arguments cleanup is called with: while the clock stands    *)
(* still only the default of 24 hours, which no job of a run outlives.     *)
DefaultMaxAge == MaxClock + MaxJobs + 1
MaxAges == IF env.time = 0 THEN {DefaultMaxAge} ELSE 0..env.time

Throws(event) == IF event \in env.throwing THEN BOOLEAN ELSE {FALSE}

(* The emits of event at which its listeners throw during one step, among  *)
(* the emits the step can make.                                            *)
ThrowsFor(event, objs) == IF event \in env.throwing THEN SUBSET objs ELSE {{}}

(* The passes of the for loop of processBatchJob for job object o: each    *)
(* emits 'jobProgress' once.                                               *)
Passes(o, job) ==
    IF job.type = "batch" /\ "files" \in DOMAIN job
    THEN {<<o, i>> : i \in 0..(Len(job.files) - 1)}
    ELSE {}

(* What the listeners do during one step: the job objects for which the    *)
(* listeners of 'jobStarted', 'jobCompleted' and 'jobFailed' throw (a step *)
(* emits each at most once per job) and the passes <<job object, i>> at    *)
(* which the listeners of 'jobProgress' throw.                             *)
Listeners(objs, passes) ==
    [jobStarted : ThrowsFor("jobStarted", objs),
     jobProgress : ThrowsFor("jobProgress", passes),
     jobCompleted : ThrowsFor("jobCompleted", objs),
     jobFailed : ThrowsFor("jobFailed", objs)]

expandViews(views) ==
    IF "all" \in SeqToSet(views)
    THEN <<"front", "side", "top", "perspective", "back", "bottom">>
    ELSE views

(* path.parse(fileName).name *)
BaseName(fileName) == fileName.name

Returned(value, log) == [ok |-> TRUE, value |-> value, error |-> NullError, log |-> log]
Thrown(message, log) == [ok |-> FALSE, value |-> NullResult, error |-> message, log |-> log]

(* renderImages: one pass of the for-of loop per view; a rejected call of  *)
(* the pass is caught, logged to the console and the loop goes on.         *)
RECURSIVE renderImagesLoop(_, _, _, _, _, _)
renderImagesLoop(views, i, fileName, options, faults, acc) ==
    IF i > Len(views) THEN acc
    ELSE LET view == views[i]
             outputFileName == <<BaseName(fileName), view, options.format>>
             pos == [acc EXCEPT !.positioned = Append(@, view),
                                !.events = Append(@, [op |-> "position",
                                                      view |-> view])]
         IN  IF view \in faults.views
             THEN renderImagesLoop(views, i + 1, fileName, options, faults,
                      [pos EXCEPT !.rejected = Append(@, view)])
             ELSE renderImagesLoop(views, i + 1, fileName, options, faults,
                      [pos EXCEPT !.captured = Append(@, view),
                                  !.events = Append(@, [op |-> "capture",
                                                        view |-> view]),
                                  !.results = Append(@, [view |-> view,
                                                         fileName |-> outputFileName])])

renderImagesPositionFirst(fileName, options, faults) ==
    LET views == expandViews(options.views)
        log == renderImagesLoop(views, 1, fileName, options, faults,
                   [mode |-> "images", requested |-> options.views, views |-> views,
                    positioned |-> <<>>, captured |-> <<>>, rejected |-> <<>>,
                    results |-> <<>>, events |-> <<>>])
    IN  [log EXCEPT !.events =
             [k \in 1..Len(log.positioned) |->
                 [op |-> "position", view |-> log.positioned[k]]]
             \o [k \in 1..Len(log.captured) |->
                    [op |-> "capture", view |-> log.captured[k]]]]

renderImages(fileName, options, faults) ==
    LET views == expandViews(options.views)
    IN  renderImagesLoop(views, 1, fileName, options, faults,
            [mode |-> "images", requested |-> options.views, views |-> views,
             positioned |-> <<>>, captured |-> <<>>, rejected |-> <<>>,
             results |-> <<>>, events |-> <<>>])

(* The frame loop of renderVideo and renderGIF: totalFrames is the         *)
(* rational tn/td, the loop runs while frame < totalFrames, and frame is   *)
(* placed at angle frame * (360 / totalFrames) = (frame*360*td) / tn.      *)
RECURSIVE captureFrames(_, _, _, _, _)
captureFrames(frame, tn, td, faults, acc) ==
    IF ~(frame * td < tn) THEN acc
    ELSE IF frame = faults.frame
         THEN [acc EXCEPT !.failedAt = frame]
         ELSE captureFrames(frame + 1, tn, td, faults,
                  [acc EXCEPT !.captured = Append(@,
                       [frame |-> frame, an |-> frame * FullTurn * td, ad |-> tn])])

FrameLog(mode, duration, fps) ==
    [mode |-> mode, durQ |-> duration, fps |-> fps, captured |-> <<>>,
     failedAt |-> Never,
     encoder |-> 0, encoderFailed |-> FALSE, removed |-> 0]

(* await fs.remove(frameDir) *)
remove(log) == [log EXCEPT !.removed = @ + 1]

FrameSequenceEncodeAnyway(mode, suffix, fileName, options, duration, fps, faults) ==
    LET tn == duration * fps
        cap == captureFrames(0, tn, DurDen, faults, FrameLog(mode, duration, fps))
        enc == [cap EXCEPT !.encoder = @ + 1]
    IN  Returned([type |-> mode,
                  fileName |-> <<BaseName(fileName), suffix>>,
                  durQ |-> duration, fps |-> fps,
                  framesN |-> tn, framesD |-> DurDen], remove(enc))

FrameSequenceLeaveFrames(mode, suffix, fileName, options, duration, fps, faults) ==
    LET tn == duration * fps
        cap == captureFrames(0, tn, DurDen, faults, FrameLog(mode, duration, fps))
        enc == [cap EXCEPT !.encoder = @ + 1]
    IN  IF cap.failedAt # Never THEN Thrown("capture failed", cap)
        ELSE IF faults.encoder
        THEN Thrown("FFmpeg failed", [enc EXCEPT !.encoderFailed = TRUE])
        ELSE Returned([type |-> mode,
                       fileName |-> <<BaseName(fileName), suffix>>,
                       durQ |-> duration, fps |-> fps,
                       framesN |-> tn, framesD |-> DurDen], remove(enc))

(* The body renderVideo and renderGIF share, after frameDir was made:      *)
(* capture every frame, run ffmpeg, remove frameDir; the first rejected    *)
(* call ends the sequence in the catch, which removes frameDir and         *)
(* rethrows.                                                               *)
FrameSequence(mode, suffix, fileName, options, duration, fps, faults) ==
    LET tn == duration * fps
        cap == captureFrames(0, tn, DurDen, faults, FrameLog(mode, duration, fps))
        enc == [cap EXCEPT !.encoder = @ + 1]
    IN  IF cap.failedAt # Never THEN Thrown("capture failed", remove(cap))
        ELSE IF faults.encoder
        THEN Thrown("FFmpeg failed", remove([enc EXCEPT !.encoderFailed = TRUE]))
        ELSE Returned([type |-> mode,
                       fileName |-> <<BaseName(fileName), suffix>>,
                       durQ |-> duration, fps |-> fps,
                       framesN |-> tn, framesD |-> DurDen], remove(enc))

renderVideo(fileName, options, faults) ==
    FrameSequence("video", "turntable.mp4", fileName, options,
                  options.durQ, options.fps, faults)

renderGIFUnclamped(fileName, options, faults) ==
    FrameSequence("gif", "animated.gif", fileName, options,
                  options.durQ, options.fps, faults)

renderGIF(fileName, options, faults) ==
    FrameSequence("gif", "animated.gif", fileName, options,
                  Min(options.durQ, GifMaxDuration * DurDen),
                  Min(options.fps, GifMaxFps), faults)

(* Which of renderVideo, renderGIF and renderImages renderGLB calls *)
captureMode(options) ==
    IF options.format = "mp4" \/ options.turntable THEN "video"
    ELSE IF options.format = "gif" \/ "animated" \in SeqToSet(options.views)
    THEN "gif"
    ELSE "images"

(* `frames_${Date.now()}` and `gif_frames_${Date.now()}` under storage/temp *)
frameDirName(mode, now) ==
    [prefix |-> IF mode = "video" THEN "frames" ELSE "gif_frames", now |-> now]

(* The try block of renderGLB after browser.newPage() *)
renderModes(fileName, options, faults) ==
    IF faults.load THEN Thrown("model load failed", [mode |-> "load"])
    ELSE IF options.format = "mp4" \/ options.turntable
    THEN LET r == renderVideo(fileName, options, faults)
         IN  IF r.ok THEN Returned([success |-> TRUE, results |-> <<r.value>>], r.log)
             ELSE r
    ELSE IF options.format = "gif" \/ "animated" \in SeqToSet(options.views)
    THEN LET r == renderGIF(fileName, options, faults)
         IN  IF r.ok THEN Returned([success |-> TRUE, results |-> <<r.value>>], r.log)
             ELSE r
    ELSE LET log == renderImages(fileName, options, faults)
         IN  Returned([success |-> TRUE, results |-> log.results], log)

(* What a renderGLB call returned or threw, and what it did to the         *)
(* browser: the pages it opened (browser.newPage) and closed (page.close). *)
Session(r, opened, closed) ==
    [ok |-> r.ok, value |-> r.value, error |-> r.error, log |-> r.log,
     opened |-> opened, closed |-> closed]

renderGLBCloseOnReturn(fileName, options, faults) ==
    IF faults.init THEN Session(Thrown("Puppeteer not initialized", NoLog), 0, 0)
    ELSE LET r == renderModes(fileName, options, faults)
         IN  Session(r, 1, IF r.ok THEN 1 ELSE 0)

(* renderGLB: the page is opened inside the try and closed in its finally *)
renderGLB(fileName, options, faults) ==
    IF faults.init THEN Session(Thrown("Puppeteer not initialized", NoLog), 0, 0)
    ELSE Session(renderModes(fileName, options, faults), 1, 1)

(* finally of renderGLB when await page.close() rejects: the rejection     *)
(* replaces what the try block returned or threw.                          *)
pageCloseRejected(out) ==
    Session(Thrown("page.close failed", out.log), out.opened, out.closed)

(* renderGLB when await this.browser.newPage() rejects: no page was opened *)
newPageRejected == Session(Thrown("browser closed", NoLog), 0, 0)

(* this.browser (NoBrowser stands for null; isInitialized is true exactly  *)
(* when it is set), the browsers puppeteer.launch has returned, numbered   *)
(* in launch order, that are still connected, and per cleanup() call that  *)
(* awaits browser.close() the browser it closes.                           *)
NoBrowser == 0

NoRenderer ==
    [instance |-> NoBrowser, connected |-> {}, launched |-> 0, closing |-> <<>>]

(* initialize after await puppeteer.launch: this.browser is the new        *)
(* browser and isInitialized = true, whatever this.browser was before.     *)
initialize(r) ==
    [r EXCEPT !.launched = @ + 1, !.instance = r.launched + 1,
              !.connected = @ \cup {r.launched + 1}]

(* How far a renderGLB call has come: the browser it asked for a page, the *)
(* await it stands at ("newPage": browser.newPage; "page": the page calls  *)
(* up to the capture; "ensureDir": fs.ensureDir(frameDir); "frames": the   *)
(* frame loop and ffmpeg; "close": fs.remove(frameDir) is done,            *)
(* page.close is to come) and what its frame sequence met.                 *)
Call(b, stage, met) == [browser |-> b, stage |-> stage, met |-> met]

NoCall == Call(NoBrowser, "none", NoFault)

----------------------------------------------------------------------------
(* JobQueue                                                                *)

NoJob ==
    [id |-> NoId, type |-> "none", fileName |-> NoFile,
     options |-> OptStillPair, status |-> "none", createdAt |-> Never, startedAt |-> Never,
     completedAt |-> Never, progress |-> 0, result |-> NullResult,
     error |-> NullError]

(* The mutable state of the JobQueue object, of its job objects and of the *)
(* promises of its processJob calls and of the renderGLB calls they await, *)
(* as one value the methods transform; browser is read only.               *)
Q == [jobs |-> jobs, queue |-> queue, isProcessing |-> isProcessing,
      activeJobs |-> activeJobs, obj |-> obj, loops |-> loops,
      running |-> running, hist |-> hist, plog |-> plog, batch |-> batch,
      pages |-> pages, micro |-> micro, rejected |-> rejected,
      browser |-> browser, glbCall |-> glbCall]

Commit(S) ==
    /\ jobs' = S.jobs
    /\ queue' = S.queue
    /\ isProcessing' = S.isProcessing
    /\ activeJobs' = S.activeJobs
    /\ obj' = S.obj
    /\ loops' = S.loops
    /\ running' = S.running
    /\ hist' = S.hist
    /\ plog' = S.plog
    /\ batch' = S.batch
    /\ pages' = S.pages
    /\ micro' = S.micro
    /\ rejected' = S.rejected
    /\ glbCall' = S.glbCall

(* A rejected promise that nobody handles ends the process once the        *)
(* microtasks have run (node 15 and later).                                *)
Alive == ~(rejected /\ micro = <<>>)

MapSet(m, k, v) == [x \in DOMAIN m \cup {k} |-> IF x = k THEN v ELSE m[x]]
MapDelete(m, ks) == [x \in DOMAIN m \ ks |-> m[x]]

SetStatus(S, o, status) ==
    [S EXCEPT !.obj[o].status = status, !.hist[o] = Append(@, status)]

(* job.progress = value *)
SetProgress(S, o, value) ==
    [S EXCEPT !.obj[o].progress = value, !.plog[o] = Append(@, value)]

(* catch (error) of processJob up to this.jobs.set *)
jobFailed(S, o, message) ==
    LET S1 == SetStatus(S, o, "failed")
    IN  [S1 EXCEPT !.obj[o].completedAt = clock,
                   !.obj[o].error = message,
                   !.jobs = MapSet(@, S.obj[o].id, o)]

jobSettledLeak(S) == S

(* finally of processJob *)
jobSettled(S) == [S EXCEPT !.activeJobs = @ - 1]

(* catch and finally of processJob. When the 'jobFailed' listener throws   *)
(* the exception leaves the catch block, finally runs and the promise of   *)
(* processJob, which nobody awaits, is rejected.                           *)
processJobCatch(S, o, message, throws) ==
    LET S1 == jobSettled(jobFailed(S, o, message))
    IN  IF o \in throws.jobFailed THEN [S1 EXCEPT !.rejected = TRUE] ELSE S1

(* await of a promise that has settled with out: fn ("processJob" or       *)
(* "processBatchJob") goes on for job o in a later microtask.              *)
defer(S, o, fn, out) ==
    [S EXCEPT !.micro = Append(@, [job |-> o, fn |-> fn, ok |-> out.ok,
                                   value |-> out.value, error |-> out.error])]

(* What a renderGLB call throws before it awaits anything: the renderer is *)
(* not initialized, or this.browser is disconnected and its newPage()      *)
(* rejects at once.                                                        *)
renderGLBRefused(S, fileName, options) ==
    IF S.browser.instance = NoBrowser
    THEN renderGLB(fileName, options, NotInitialized)
    ELSE newPageRejected

(* processRenderJob up to await this.renderer.renderGLB: the call is       *)
(* refused, or awaits this.browser.newPage() (it has no page yet).         *)
processRenderJob(S, o) ==
    IF S.browser.instance \in S.browser.connected
    THEN [S EXCEPT !.running = @ \cup {o},
                   !.glbCall[o] = Call(S.browser.instance, "newPage", NoFault)]
    ELSE defer(S, o, "processJob",
               renderGLBRefused(S, S.obj[o].fileName, S.obj[o].options))

NoBatch == [calls |-> <<>>, results |-> <<>>]

(* Math.floor((i / totalFiles) * 95), for 0 <= i < totalFiles. The double  *)
(* arithmetic of the code gives the integer quotient of i * 95 by          *)
(* totalFiles for every totalFiles below 95, which covers every files      *)
(* array of the model (MaxFiles).                                          *)
batchProgress(i, totalFiles) == (i * 95) \div totalFiles

(* The value processBatchJob returns *)
batchResult(files, results) ==
    [type |-> "batch", totalFiles |-> Len(files), results |-> results,
     successful |-> Cardinality({k \in 1..Len(results) : results[k].success}),
     failed |-> Cardinality({k \in 1..Len(results) : ~results[k].success})]

(* results.push({ fileName, success: false, error: error.message }) *)
pushFailure(S, o, fileName, message) ==
    [S EXCEPT !.batch[o].results =
                  Append(@, [fileName |-> fileName, success |-> FALSE,
                             error |-> message])]

(* The for loop of processBatchJob from the top of pass i (i is            *)
(* results.length, as every pass pushes one entry) to the renderGLB call   *)
(* it awaits or to its return. A pass whose 'jobProgress' listener throws  *)
(* ends in its catch and the next pass follows. The renderGLB call awaits  *)
(* this.browser.newPage() (it has no page yet), or is refused: the promise *)
(* the pass awaits is rejected and its catch runs in a later microtask.    *)
RECURSIVE processBatchJobLoop(_, _, _)
processBatchJobLoop(S, o, throws) ==
    LET files == S.obj[o].files
        i == Len(S.batch[o].results)
        fileName == files[i + 1]
        S1 == [SetProgress(S, o, batchProgress(i, Len(files))) EXCEPT
                         !.jobs = MapSet(@, S.obj[o].id, o)]
        S2 == [S1 EXCEPT !.batch[o].calls = Append(@, fileName)]
    IN  IF i >= Len(files)
        THEN defer(S, o, "processJob",
                   Returned(batchResult(files, S.batch[o].results), NoLog))
        ELSE IF <<o, i>> \in throws.jobProgress
        THEN processBatchJobLoop(pushFailure(S1, o, fileName, "listener threw"),
                                 o, throws)
        ELSE IF S.browser.instance \notin S.browser.connected
        THEN defer(S2, o, "processBatchJob",
                   renderGLBRefused(S, fileName, S.obj[o].options))
        ELSE [S2 EXCEPT !.running = @ \cup {o},
                        !.glbCall[o] = Call(S.browser.instance, "newPage", NoFault)]

(* processBatchJob up to its first await. A job without files throws at    *)
(* files.length: the promise processJob awaits is rejected.                *)
processBatchJob(S, o, throws) ==
    IF "files" \notin DOMAIN S.obj[o]
    THEN defer(S, o, "processJob",
               Thrown("Cannot read properties of undefined (reading 'length')",
                      NoLog))
    ELSE processBatchJobLoop(S, o, throws)

processJobCompletedNoProgress(S, o, result, throws) ==
    LET S1 == SetStatus(S, o, "completed")
        S2 == [S1 EXCEPT !.obj[o].completedAt = clock,
                         !.obj[o].result = result,
                         !.jobs = MapSet(@, S.obj[o].id, o)]
    IN  IF o \in throws.jobCompleted
        THEN processJobCatch(S2, o, "listener threw", throws)
        ELSE jobSettled(S2)

(* processJob after its switch: the job is completed; when the             *)
(* 'jobCompleted' listener throws, the catch block follows.                *)
processJobCompleted(S, o, result, throws) ==
    LET S1 == SetStatus(S, o, "completed")
        S2 == [SetProgress(S1, o, 100) EXCEPT
                         !.obj[o].completedAt = clock,
                         !.obj[o].result = result,
                         !.jobs = MapSet(@, S.obj[o].id, o)]
    IN  IF o \in throws.jobCompleted
        THEN processJobCatch(S2, o, "listener threw", throws)
        ELSE jobSettled(S2)

(* processJob up to its first await. The listeners of throws throw for the *)
(* job objects named there.                                                *)
processJob(S, o, throws) ==
    LET S1 == [S EXCEPT !.activeJobs = @ + 1]
        S2 == SetStatus(S1, o, "processing")
        S3 == [S2 EXCEPT !.obj[o].startedAt = clock,
                         !.jobs = MapSet(@, S.obj[o].id, o)]
    IN  IF o \in throws.jobStarted
        THEN processJobCatch(S3, o, "listener threw", throws)
        ELSE IF S.obj[o].type = "render"
        THEN processRenderJob(S3, o)
        ELSE IF S.obj[o].type = "batch"
        THEN processBatchJob(S3, o, throws)
        ELSE processJobCatch(S3, o, "Unknown job type", throws)

hasSlotUnlimited(S) == Len(S.queue) > 0

hasSlotOffByOne(S) == S.activeJobs <= concurrency /\ Len(S.queue) > 0

(* while (this.activeJobs < this.concurrency && this.queue.length > 0) *)
hasSlot(S) == S.activeJobs < concurrency /\ Len(S.queue) > 0

(* const job = this.queue.shift() *)
shift(q) == [job |-> Head(q), rest |-> Tail(q)]

RECURSIVE dispatch(_, _)
dispatch(S, throws) ==
    IF hasSlot(S)
    THEN dispatch(processJob([S EXCEPT !.queue = shift(S.queue).rest],
                             shift(S.queue).job, throws),
                  throws)
    ELSE S

(* One evaluation of the outer while of processQueue, entered with the     *)
(* invocation running: dispatch and go to sleep, or leave the loop.        *)
processQueueTurn(S, throws) ==
    IF S.isProcessing /\ (Len(S.queue) > 0 \/ S.activeJobs > 0)
    THEN [dispatch(S, throws) EXCEPT !.loops = @ + 1]
    ELSE [S EXCEPT !.isProcessing = FALSE]

(* A call of processQueue, up to its first await *)
processQueue(S, hasRenderer, throws) ==
    IF ~hasRenderer THEN S
    ELSE processQueueTurn([S EXCEPT !.isProcessing = TRUE], throws)

(* The passes of the batch jobs in the queue *)
QueuedPasses == UNION {Passes(o, obj[o]) : o \in SeqToSet(queue)}

Start ==
    \E throws \in Listeners(SeqToSet(queue), QueuedPasses) :
        LET S == processQueue(Q, TRUE, throws)
        IN  /\ Alive
            /\ S.loops <= env.loops
            /\ renderer' = TRUE
            /\ stopped' = FALSE
            /\ Commit(S)
            /\ UNCHANGED <<uuids, clock, env, rlog, temp, frameDir,
                           route, browser, maker>>

Stop ==
    /\ Alive
    /\ env.stops
    /\ Commit([Q EXCEPT !.isProcessing = FALSE])
    /\ stopped' = TRUE
    /\ UNCHANGED <<renderer, uuids, clock, env, rlog, temp, frameDir,
                   route, browser, maker>>

(* { id: jobId, ...jobData, status: 'pending', ... }: the fields written   *)
(* before the spread are replaced by those of jobData, the fields written  *)
(* after it replace those of jobData.                                      *)
(* A job has a files property only when jobData has one.                   *)
newJob(jobId, jobData) ==
    LET job == [id |-> IF jobData.id # NoId THEN jobData.id ELSE jobId,
                type |-> jobData.type, fileName |-> jobData.fileName,
                options |-> jobData.options,
                status |-> "pending", createdAt |-> clock, startedAt |-> Never,
                completedAt |-> Never, progress |-> 0, result |-> NullResult,
                error |-> NullError]
    IN  IF "files" \in DOMAIN jobData
        THEN [f \in DOMAIN job \cup {"files"} |->
                 IF f = "files" THEN jobData.files ELSE job[f]]
        ELSE job

(* addJob returns the generated id, or throws what a 'jobAdded' listener   *)
(* threw (the job is then registered and queued, processQueue not called). *)
addJob(S, hasRenderer, jobData, addedThrows, throws) ==
    LET o == uuids + 1
        jobId == uuidv4(o)
        S1 == [S EXCEPT !.obj[o] = newJob(jobId, jobData),
                        !.hist[o] = <<"pending">>,
                        !.plog[o] = <<0>>,
                        !.jobs = MapSet(@, jobId, o),
                        !.queue = Append(@, o)]
    IN  IF addedThrows THEN [S |-> S1, ret |-> <<"throw">>]
        ELSE IF S1.isProcessing THEN [S |-> S1, ret |-> jobId]
        ELSE [S |-> processQueue(S1, hasRenderer, throws), ret |-> jobId]

AddJob(jobData) ==
    /\ Alive
    /\ uuids < env.cap
    /\ \E addedThrows \in Throws("jobAdded"),
          throws \in Listeners(SeqToSet(queue) \cup {uuids + 1},
                               QueuedPasses \cup Passes(uuids + 1, jobData)) :
        LET call == addJob(Q, renderer, jobData, addedThrows, throws)
        IN  /\ call.S.loops <= env.loops
            /\ Commit(call.S)
            /\ uuids' = uuids + 1
    /\ UNCHANGED <<renderer, clock, env, rlog, temp, frameDir, stopped,
                   route, browser, maker>>

(* processQueue resumes after await this.sleep(1000): its timer fires once *)
(* the microtasks have run.                                                *)
Wake ==
    /\ Alive
    /\ loops > 0
    /\ micro = <<>>
    /\ \E throws \in Listeners(SeqToSet(queue), QueuedPasses) :
        Commit(processQueueTurn([Q EXCEPT !.loops = @ - 1], throws))
    /\ UNCHANGED <<renderer, uuids, clock, env, rlog, temp, frameDir,
                   stopped, route, browser, maker>>

(* processBatchJob after await renderer.renderGLB: the outcome of the file *)
(* is pushed to results and the loop goes on.                              *)
processBatchJobSettle(S, o, out, throws) ==
    LET files == S.obj[o].files
        fileName == files[Len(S.batch[o].results) + 1]
        S1 == [S EXCEPT !.batch[o].results =
                   Append(@, [fileName |-> fileName, success |-> TRUE,
                              result |-> out.value])]
    IN  IF out.ok THEN processBatchJobLoop(S1, o, throws)
        ELSE processBatchJobLoop(pushFailure(S, o, fileName, out.error), o, throws)

(* The oldest microtask: processBatchJob goes on in the catch of the pass  *)
(* whose renderGLB call was refused, or processJob goes on after await     *)
(* processRenderJob / processBatchJob with what that promise settled with. *)
runMicrotask(S, throws) ==
    LET m == Head(S.micro)
        S1 == [S EXCEPT !.micro = Tail(@)]
    IN  IF m.fn = "processBatchJob"
        THEN processBatchJobSettle(S1, m.job, m, throws)
        ELSE IF m.ok THEN processJobCompleted(S1, m.job, m.value, throws)
        ELSE processJobCatch(S1, m.job, m.error, throws)

Resume ==
    /\ Alive
    /\ micro # <<>>
    /\ \E throws \in Listeners({Head(micro).job},
                               Passes(Head(micro).job, obj[Head(micro).job])) :
           Commit(runMicrotask(Q, throws))
    /\ UNCHANGED <<renderer, uuids, clock, env, rlog, temp, frameDir,
                   stopped, route, browser, maker>>

(* processRenderJob after await renderer.renderGLB: the call returned      *)
(* (progress is set to 100 and processRenderJob returns; processJob goes   *)
(* on in a later microtask) or threw (nothing changes until the catch      *)
(* block of processJob has run).                                           *)
processRenderJobSettle(S, o, out, throws) ==
    IF out.ok
    THEN defer([SetProgress(S, o, 100) EXCEPT
                          !.jobs = MapSet(@, S.obj[o].id, o)],
               o, "processJob", out)
    ELSE processJobCatch(S, o, out.error, throws)

(* const progressCallback = (progress) => { ... } of processRenderJob *)
progressCallback(S, o, progress) ==
    LET S1 == SetProgress(S, o, Min(progress, 95))
    IN  [S1 EXCEPT !.jobs = MapSet(@, S.obj[o].id, o)]

(* The renderer reports progress of the running job o *)
ProgressCallback(o, progress) ==
    /\ Alive
    /\ o \in running
    /\ obj[o].type = "render"
    /\ Len(plog[o]) <= MaxReports
    /\ Commit(progressCallback(Q, o, progress))
    /\ UNCHANGED <<renderer, uuids, clock, env, rlog, temp, frameDir,
                   stopped, route, browser, maker>>

(* await this.browser.newPage() of the renderGLB call of job o resolves:   *)
(* the call has its page.                                                  *)
NewPage(o) ==
    /\ Alive
    /\ o \in running
    /\ glbCall[o].stage = "newPage"
    /\ glbCall[o].browser \in browser.connected
    /\ pages' = pages \cup {o}
    /\ glbCall' = [glbCall EXCEPT ![o].stage = "page"]
    /\ UNCHANGED <<jobs, queue, isProcessing, activeJobs, renderer, obj, uuids,
                   loops, running, clock, env, hist, rlog, temp, frameDir, plog,
                   stopped, batch, micro, rejected, route, browser, maker>>

(* renderVideo / renderGIF up to await fs.ensureDir(frameDir): frameDir is *)
(* named after the clock. The call has loaded the model in its page.       *)
BeginCapture(o) ==
    /\ Alive
    /\ o \in running
    /\ o \in pages
    /\ glbCall[o].stage = "page"
    /\ obj[o].type = "render"
    /\ captureMode(obj[o].options) # "images"
    /\ \E faults \in env.faults : ~faults.init /\ ~faults.load
    /\ frameDir' = [frameDir EXCEPT
                       ![o] = frameDirName(captureMode(obj[o].options), clock)]
    /\ glbCall' = [glbCall EXCEPT ![o].stage = "ensureDir"]
    /\ UNCHANGED <<jobs, queue, isProcessing, activeJobs, renderer, obj, uuids,
                   loops, running, clock, env, hist, rlog, temp, plog, stopped,
                   batch, pages, micro, rejected, route, browser, maker>>

(* await fs.ensureDir(frameDir) resolves: the directory exists, made now   *)
(* unless a directory of that name was there already.                      *)
EnsureDir(o) ==
    /\ Alive
    /\ o \in running
    /\ glbCall[o].stage = "ensureDir"
    /\ temp' = temp \cup {frameDir[o]}
    /\ maker' = IF frameDir[o] \in temp THEN maker
                ELSE MapSet(maker, frameDir[o], o)
    /\ glbCall' = [glbCall EXCEPT ![o].stage = "frames"]
    /\ UNCHANGED <<jobs, queue, isProcessing, activeJobs, renderer, obj, uuids,
                   loops, running, clock, env, hist, rlog, frameDir, plog,
                   stopped, batch, pages, micro, rejected, route, browser>>

(* The number of frames renderVideo / renderGIF capture with options *)
frameCount(options) ==
    Len(renderModes(ModelFile, options, NoFault).log.captured)

(* The fault plans the renderGLB call of job o can have met when its       *)
(* render ends. The environment's plans: a frame sequence that has not     *)
(* begun its capture failed to load; one in its frame loop got past        *)
(* loading, and got past frame 0 only while time passed (every frame waits *)
(* for a timeout before its screenshot). A call whose page is gone with    *)
(* its browser may have failed to load or at any view; a frame sequence    *)
(* whose page is gone, or whose frameDir another job has removed, may have *)
(* failed at any frame, and ffmpeg may have missed the frames.             *)
FaultPlans(o) ==
    LET options == obj[o].options
        plans == {f \in env.faults : ~f.init}
        views == expandViews(options.views)
        pageLost == o \notin pages
        dirLost == frameDir[o] \notin temp
        later == clock > frameDir[o].now
    IN  IF glbCall[o].stage = "page"
        THEN IF captureMode(options) = "images" \/ obj[o].type = "batch"
             THEN plans \cup
                  (IF pageLost
                   THEN {LoadFails}
                        \cup {ViewsFailFrom(views, i) : i \in 1..Len(views)}
                   ELSE {})
             ELSE {f \in plans : f.load} \cup (IF pageLost THEN {LoadFails} ELSE {})
        ELSE IF glbCall[o].stage = "frames"
        THEN {f \in plans : ~f.load /\ (later \/ f.frame = 0)}
             \cup (IF pageLost THEN {FailAt(0)} ELSE {})
             \cup (IF later /\ (pageLost \/ dirLost)
                   THEN {FailAt(k) : k \in 0..(frameCount(options) - 1)}
                   ELSE {})
             \cup (IF later /\ dirLost THEN {EncoderFails} ELSE {})
        ELSE {}

(* renderVideo / renderGIF from the frame loop to the end of await         *)
(* fs.remove(frameDir) (after ffmpeg, or in the catch): what the call met  *)
(* is settled and frameDir is removed; the page is still open.             *)
EndCapture(o) ==
    /\ Alive
    /\ o \in running
    /\ glbCall[o].stage = "frames"
    /\ \E faults \in FaultPlans(o) :
        LET out == renderGLB(obj[o].fileName, obj[o].options, faults)
        IN  /\ glbCall' = [glbCall EXCEPT ![o].stage = "close", ![o].met = faults]
            /\ temp' = IF out.log.removed > 0 THEN temp \ {frameDir[o]} ELSE temp
            /\ maker' = IF out.log.removed > 0
                        THEN MapDelete(maker, {frameDir[o]})
                        ELSE maker
    /\ UNCHANGED <<jobs, queue, isProcessing, activeJobs, renderer, obj, uuids,
                   loops, running, clock, env, hist, rlog, frameDir, plog,
                   stopped, batch, pages, micro, rejected, route, browser>>

(* The fault plans of the renderGLB call of job o when it settles: what    *)
(* its frame sequence met, if it began one.                                *)
SettlePlans(o) ==
    IF glbCall[o].stage = "close" THEN {glbCall[o].met}
    ELSE IF glbCall[o].stage = "page" THEN FaultPlans(o)
    ELSE {}

(* Whether await page.close() rejects: it can when the browser of the page *)
(* has closed.                                                             *)
CloseRejects(o) == IF o \notin pages THEN BOOLEAN ELSE {FALSE}

(* What the renderGLB call job o awaits can settle with, for the file it   *)
(* renders: before it has a page only the rejection of newPage(), when its *)
(* browser has closed; after that what its try block and its finally do.   *)
Outcomes(o, fileName) ==
    IF glbCall[o].stage = "newPage"
    THEN IF glbCall[o].browser \in browser.connected THEN {}
         ELSE {newPageRejected}
    ELSE {IF closeRejects
          THEN pageCloseRejected(renderGLB(fileName, obj[o].options, faults))
          ELSE renderGLB(fileName, obj[o].options, faults) :
              faults \in SettlePlans(o), closeRejects \in CloseRejects(o)}

(* The renderGLB call a render job awaits settles; its finally has closed  *)
(* the page it had.                                                        *)
Settle(o) ==
    /\ Alive
    /\ o \in running
    /\ obj[o].type = "render"
    /\ \E out \in Outcomes(o, obj[o].fileName), throws \in Listeners({o}, {}) :
        LET S == processRenderJobSettle(
                     [Q EXCEPT !.running = @ \ {o},
                               !.pages = IF out.closed > 0 THEN @ \ {o} ELSE @,
                               !.glbCall[o] = NoCall],
                     o, out, throws)
        IN  /\ Commit(S)
            /\ rlog' = [rlog EXCEPT ![o] = out.log]
    /\ UNCHANGED <<renderer, uuids, clock, env, temp, frameDir, stopped,
                   route, browser, maker>>

(* The renderGLB call a batch job awaits settles *)
SettleFile(o) ==
    /\ Alive
    /\ o \in running
    /\ obj[o].type = "batch"
    /\ \E out \in Outcomes(o, Last(batch[o].calls)),
          throws \in Listeners({o}, Passes(o, obj[o])) :
        Commit(processBatchJobSettle(
                   [Q EXCEPT !.running = @ \ {o},
                             !.pages = IF out.closed > 0 THEN @ \ {o} ELSE @,
                             !.glbCall[o] = NoCall],
                   o, out, throws))
    /\ UNCHANGED <<renderer, uuids, clock, env, rlog, temp, frameDir,
                   stopped, route, browser, maker>>

findIndex(S, jobId) ==
    LET hits == {i \in 1..Len(S.queue) : S.obj[S.queue[i]].id = jobId}
    IN  IF hits = {} THEN 0 ELSE CHOOSE i \in hits : \A j \in hits : i <= j

splice(q, i) == [k \in 1..(Len(q) - 1) |-> IF k < i THEN q[k] ELSE q[k + 1]]

(* cancelJob returns true or false, or throws what a 'jobCancelled'        *)
(* listener threw.                                                         *)
cancelJob(S, jobId, cancelledThrows) ==
    IF jobId \notin DOMAIN S.jobs THEN [S |-> S, ret |-> "false"]
    ELSE IF S.obj[S.jobs[jobId]].status = "pending"
    THEN LET o == S.jobs[jobId]
             queueIndex == findIndex(S, jobId)
             S1 == IF queueIndex # 0
                   THEN [S EXCEPT !.queue = splice(@, queueIndex)]
                   ELSE S
             S2 == SetStatus(S1, o, "cancelled")
             S3 == [S2 EXCEPT !.obj[o].completedAt = clock,
                              !.jobs = MapSet(@, jobId, o)]
         IN  [S |-> S3, ret |-> IF cancelledThrows THEN "throw" ELSE "true"]
    ELSE [S |-> S, ret |-> "false"]

CancelJob(jobId) ==
    /\ Alive
    /\ \E cancelledThrows \in Throws("jobCancelled") :
           Commit(cancelJob(Q, jobId, cancelledThrows).S)
    /\ UNCHANGED <<renderer, uuids, clock, env, rlog, temp, frameDir,
                   stopped, route, browser, maker>>

(* cleanup returns the number of registry entries it deleted *)
cleanup(S, maxAge) ==
    LET cutoff == clock - maxAge
        old == {k \in DOMAIN S.jobs :
                   /\ S.obj[S.jobs[k]].completedAt # Never
                   /\ S.obj[S.jobs[k]].completedAt < cutoff}
    IN  [S |-> [S EXCEPT !.jobs = MapDelete(@, old)], ret |-> Cardinality(old)]

Cleanup(maxAge) ==
    /\ Alive
    /\ Commit(cleanup(Q, maxAge).S)
    /\ UNCHANGED <<renderer, uuids, clock, env, rlog, temp, frameDir,
                   stopped, route, browser, maker>>

----------------------------------------------------------------------------
(* PuppeteerRenderer.initialize and PuppeteerRenderer.cleanup              *)

(* initialize after await puppeteer.launch, also while this.browser is     *)
(* open (that browser stays connected and nothing refers to it any more)   *)
(* and while a cleanup() call awaits browser.close().                      *)
Initialize ==
    /\ Alive
    /\ browser.launched < env.launches
    /\ browser' = initialize(browser)
    /\ UNCHANGED <<jobs, queue, isProcessing, activeJobs, renderer, obj, uuids,
                   loops, running, clock, env, hist, rlog, temp, frameDir, plog,
                   stopped, batch, pages, micro, rejected, route, glbCall, maker>>

(* cleanup up to await this.browser.close(), under if (this.browser) *)
RendererCleanup ==
    /\ Alive
    /\ env.cleans
    /\ browser.instance # NoBrowser
    /\ Len(browser.closing) < MaxCleanups
    /\ browser' = [browser EXCEPT !.closing = Append(@, browser.instance)]
    /\ UNCHANGED <<jobs, queue, isProcessing, activeJobs, renderer, obj, uuids,
                   loops, running, clock, env, hist, rlog, temp, frameDir, plog,
                   stopped, batch, pages, micro, rejected, route, glbCall, maker>>

(* Browser b, which a cleanup() call has asked to close, closes: its pages *)
(* are gone with it.                                                       *)
BrowserClosed(b) ==
    /\ Alive
    /\ b \in browser.connected
    /\ b \in SeqToSet(browser.closing)
    /\ browser' = [browser EXCEPT !.connected = @ \ {b}]
    /\ pages' = {o \in pages : glbCall[o].browser # b}
    /\ UNCHANGED <<jobs, queue, isProcessing, activeJobs, renderer, obj, uuids,
                   loops, running, clock, env, hist, rlog, temp, frameDir, plog,
                   stopped, batch, micro, rejected, route, glbCall, maker>>

(* The cleanup() call that is number i of those awaiting goes on after the *)
(* await, once its browser has closed: this.browser = null and             *)
(* isInitialized = false, whichever browser this.browser is by then.       *)
RendererCleaned(i) ==
    /\ Alive
    /\ i \in 1..Len(browser.closing)
    /\ browser.closing[i] \notin browser.connected
    /\ browser' = [browser EXCEPT !.instance = NoBrowser,
                                  !.closing = splice(@, i)]
    /\ UNCHANGED <<jobs, queue, isProcessing, activeJobs, renderer, obj, uuids,
                   loops, running, clock, env, hist, rlog, temp, frameDir, plog,
                   stopped, batch, pages, micro, rejected, route, glbCall, maker>>

----------------------------------------------------------------------------
(* The render route                                                        *)

(* src/src/routes/render.js: browserInstance, the browsers launched so far *)
(* that are connected, the puppeteer.launch calls in flight and the number *)
(* of getBrowser calls that reached puppeteer.launch.                      *)
NoRoute ==
    [browserInstance |-> NoBrowser, connected |-> {}, launching |-> 0,
     launched |-> 0, calls |-> 0]

noBrowserConnected(r) ==
    r.browserInstance = NoBrowser \/ r.browserInstance \notin r.connected

(* getBrowser up to await puppeteer.launch(); with a connected             *)
(* browserInstance it returns at once and changes nothing.                 *)
GetBrowser ==
    /\ route.calls < env.requests
    /\ noBrowserConnected(route)
    /\ route' = [route EXCEPT !.launching = @ + 1, !.calls = @ + 1]
    /\ UNCHANGED <<jobs, queue, isProcessing, activeJobs, renderer, obj, uuids,
                   loops, running, clock, env, hist, rlog, temp, frameDir, plog,
                   stopped, batch, pages, micro, rejected, browser, glbCall, maker>>

(* puppeteer.launch resolves: the new browser is assigned to               *)
(* browserInstance and gets its 'disconnected' listener.                   *)
Launched ==
    /\ route.launching > 0
    /\ route' = [route EXCEPT !.launching = @ - 1,
                              !.launched = @ + 1,
                              !.browserInstance = route.launched + 1,
                              !.connected = @ \cup {route.launched + 1}]
    /\ UNCHANGED <<jobs, queue, isProcessing, activeJobs, renderer, obj, uuids,
                   loops, running, clock, env, hist, rlog, temp, frameDir, plog,
                   stopped, batch, pages, micro, rejected, browser, glbCall, maker>>

(* puppeteer.launch rejects: getBrowser logs and rethrows *)
LaunchFailed ==
    /\ route.launching > 0
    /\ route' = [route EXCEPT !.launching = @ - 1]
    /\ UNCHANGED <<jobs, queue, isProcessing, activeJobs, renderer, obj, uuids,
                   loops, running, clock, env, hist, rlog, temp, frameDir, plog,
                   stopped, batch, pages, micro, rejected, browser, glbCall, maker>>

(* Browser b disconnects: its listener sets browserInstance = null *)
Disconnected(b) ==
    /\ b \in route.connected
    /\ route' = [route EXCEPT !.connected = @ \ {b},
                              !.browserInstance = NoBrowser]
    /\ UNCHANGED <<jobs, queue, isProcessing, activeJobs, renderer, obj, uuids,
                   loops, running, clock, env, hist, rlog, temp, frameDir, plog,
                   stopped, batch, pages, micro, rejected, browser, glbCall, maker>>

(* Time passes: as far as the environment lets it, and always while a     *)
(* frame directory is made and during a frame capture (each frame waits    *)
(* for a timeout before its screenshot).                                   *)
Tick ==
    /\ \/ clock < env.time
       \/ \E o \in running : /\ glbCall[o].stage \in {"ensureDir", "frames"}
                             /\ frameDir[o].now = clock
    /\ clock' = clock + 1
    /\ UNCHANGED <<jobs, queue, isProcessing, activeJobs, renderer, obj, uuids,
                   loops, running, env, hist, rlog, temp, frameDir, plog,
                   stopped, batch, pages, micro, rejected, route, browser, glbCall,
                   maker>>

Init ==
    /\ jobs = <<>>
    /\ queue = <<>>
    /\ isProcessing = FALSE
    /\ activeJobs = 0
    /\ renderer = FALSE
    /\ obj = [o \in Objs |-> NoJob]
    /\ uuids = 0
    /\ loops = 0
    /\ running = {}
    /\ clock = 0
    /\ env \in Environments
    /\ hist = [o \in Objs |-> <<>>]
    /\ rlog = [o \in Objs |-> NoLog]
    /\ temp = {}
    /\ frameDir = [o \in Objs |-> NoDir]
    /\ plog = [o \in Objs |-> <<>>]
    /\ stopped = FALSE
    /\ batch = [o \in Objs |-> NoBatch]
    /\ pages = {}
    /\ route = NoRoute
    /\ micro = <<>>
    /\ rejected = FALSE
    /\ browser \in (IF \E faults \in env.faults : faults.init
                    THEN {NoRenderer, initialize(NoRenderer)}
                    ELSE {initialize(NoRenderer)})
    /\ glbCall = [o \in Objs |-> NoCall]
    /\ maker = <<>>

Next ==
    \/ Start
    \/ Stop
    \/ \E jobData \in env.inputs : AddJob(jobData)
    \/ Wake
    \/ Resume
    \/ \E o \in Objs, progress \in env.reports : ProgressCallback(o, progress)
    \/ \E o \in Objs : NewPage(o)
    \/ \E o \in Objs : BeginCapture(o)
    \/ \E o \in Objs : EnsureDir(o)
    \/ \E o \in Objs : EndCapture(o)
    \/ \E o \in Objs : Settle(o)
    \/ \E o \in Objs : SettleFile(o)
    \/ \E jobId \in Keys : CancelJob(jobId)
    \/ \E maxAge \in MaxAges : Cleanup(maxAge)
    \/ Initialize
    \/ RendererCleanup
    \/ \E b \in 1..MaxLaunches : BrowserClosed(b)
    \/ \E i \in 1..MaxCleanups : RendererCleaned(i)
    \/ GetBrowser
    \/ Launched
    \/ LaunchFailed
    \/ \E b \in 1..MaxRequests : Disconnected(b)
    \/ Tick

Spec == Init /\ [][Next]_vars

(* The program when neither stop() nor the renderer's cleanup() is called, *)
(* with the scheduling the code relies on: a sleeping processQueue is      *)
(* woken by its timer, microtasks run, time passes, and every renderGLB    *)
(* call goes on and eventually returns or throws.                          *)
NextNoStop ==
    \/ Start
    \/ \E jobData \in env.inputs : AddJob(jobData)
    \/ Wake
    \/ Resume
    \/ \E o \in Objs, progress \in env.reports : ProgressCallback(o, progress)
    \/ \E o \in Objs : NewPage(o)
    \/ \E o \in Objs : BeginCapture(o)
    \/ \E o \in Objs : EnsureDir(o)
    \/ \E o \in Objs : EndCapture(o)
    \/ \E o \in Objs : Settle(o)
    \/ \E o \in Objs : SettleFile(o)
    \/ \E jobId \in Keys : CancelJob(jobId)
    \/ \E maxAge \in MaxAges : Cleanup(maxAge)
    \/ Initialize
    \/ GetBrowser
    \/ Launched
    \/ LaunchFailed
    \/ \E b \in 1..MaxRequests : Disconnected(b)
    \/ Tick

Fairness ==
    /\ WF_vars(Wake)
    /\ WF_vars(Resume)
    /\ WF_vars(Tick)
    /\ \A o \in Objs : WF_vars(NewPage(o))
    /\ \A o \in Objs : WF_vars(BeginCapture(o))
    /\ \A o \in Objs : WF_vars(EnsureDir(o))
    /\ \A o \in Objs : WF_vars(EndCapture(o))
    /\ \A o \in Objs : WF_vars(Settle(o))
    /\ \A o \in Objs : WF_vars(SettleFile(o))

LiveSpec == Init /\ [][NextNoStop]_vars /\ Fairness

TypeOK ==
    /\ activeJobs \in 0..MaxJobs
    /\ pages \subseteq Objs
    /\ rejected \in BOOLEAN
    /\ browser.instance \in 0..MaxLaunches
    /\ browser.connected \subseteq 1..browser.launched
    /\ browser.launched \in 0..MaxLaunches
    /\ Len(browser.closing) <= MaxCleanups
    /\ \A o \in Objs :
           glbCall[o].stage \in {"none", "newPage", "page", "ensureDir", "frames", "close"}
    /\ DOMAIN maker = temp
    /\ \A k \in 1..Len(micro) :
           micro[k].job \in Objs /\ micro[k].fn \in {"processJob", "processBatchJob"}
    /\ loops \in 0..MaxLoops
    /\ \A i \in 1..Len(queue) : queue[i] \in Objs

----------------------------------------------------------------------------
(* Properties                                                              *)

Created == {o \in Objs : obj[o].status # "none"}
Terminal == {"completed", "failed", "cancelled"}
Statuses(o) == SeqToSet(hist[o])
IsStill(o) == rlog[o].mode = "images"
IsSequence(o) == rlog[o].mode \in {"video", "gif"}

(* C1: activeJobs never exceeds the concurrency limit, whatever the        *)
(* interleaving of addJob, start, stop, cancelJob, wake-ups of any number  *)
(* of processQueue loops and settling jobs.                                *)
C1_ConcurrencyBound == activeJobs <= concurrency

C1_Witness ==
    /\ activeJobs = concurrency
    /\ Len(queue) > 0
    /\ loops > 1

(* C2: FIFO dispatch. Job objects are numbered in addJob order; while an   *)
(* earlier job is still pending, no later job has ever been moved to       *)
(* processing, whichever jobs cancelJob has been called for.               *)
C2_Fifo ==
    \A a, b \in Created :
        (a < b /\ obj[a].status = "pending") => "processing" \notin Statuses(b)

LegalTransitions ==
    { <<"pending", "processing">>, <<"processing", "completed">>,
      <<"processing", "failed">>, <<"pending", "cancelled">> }

(* C3: every status change of a job is pending->processing,                *)
(* processing->completed, processing->failed or pending->cancelled.        *)
C3_LegalTransitionsOnly ==
    \A o \in Created :
        /\ hist[o][1] = "pending"
        /\ \A i \in 1..(Len(hist[o]) - 1) :
               <<hist[o][i], hist[o][i + 1]>> \in LegalTransitions

(* C4: a job that processJob has ended, completed or failed, has exactly   *)
(* one of result and error populated; result is non-null only when the     *)
(* status is completed and error is non-null only when the status is       *)
(* failed. (cancelJob writes neither field: a cancelled job has neither.)  *)
C4_ExactlyOneOfResultError ==
    \A o \in Created :
        /\ obj[o].status \in {"completed", "failed"} =>
               (obj[o].result # NullResult) # (obj[o].error # NullError)
        /\ obj[o].result # NullResult => obj[o].status = "completed"
        /\ obj[o].error # NullError => obj[o].status = "failed"

QueueChannel(S) ==
    [jobs |-> S.jobs, queue |-> S.queue, obj |-> S.obj,
     activeJobs |-> S.activeJobs, isProcessing |-> S.isProcessing]

(* C5: in every state, cancelJob of a pending job removes it from the      *)
(* queue, sets status cancelled and completedAt and returns true; a job    *)
(* that was cancelled is out of the queue and is never dispatched          *)
(* afterwards (cancelled stays its last status); cancelJob of any other    *)
(* key returns false and changes no job, no queue entry and no counter.    *)
C5_CancelContract ==
    /\ \A jobId \in Keys :
           LET call == cancelJob(Q, jobId, FALSE)
           IN  IF jobId \in DOMAIN jobs /\ obj[jobs[jobId]].status = "pending"
               THEN /\ call.ret = "true"
                    /\ jobs[jobId] \notin SeqToSet(call.S.queue)
                    /\ call.S.obj[jobs[jobId]].status = "cancelled"
                    /\ call.S.obj[jobs[jobId]].completedAt # Never
               ELSE /\ call.ret = "false"
                    /\ QueueChannel(call.S) = QueueChannel(Q)
    /\ \A o \in Created :
           "cancelled" \in Statuses(o) =>
               /\ Last(hist[o]) = "cancelled"
               /\ o \notin SeqToSet(queue)
               /\ obj[o].completedAt # Never

RecordedErrors(result) ==
    IF "errors" \in DOMAIN result THEN result.errors ELSE <<>>

(* C6: a still-image job of N views of which k (0 < k < N) were rejected   *)
(* completes with N-k artifacts in request order and k recorded errors.    *)
C6_PartialViewsRecorded ==
    \A o \in Created :
        (/\ IsStill(o)
         /\ Len(rlog[o].rejected) > 0
         /\ Len(rlog[o].rejected) < Len(rlog[o].views)) =>
            /\ obj[o].status = "completed"
            /\ Len(obj[o].result.results) =
                   Len(rlog[o].views) - Len(rlog[o].rejected)
            /\ [i \in 1..Len(obj[o].result.results) |->
                   obj[o].result.results[i].view] = rlog[o].captured
            /\ Len(RecordedErrors(obj[o].result)) = Len(rlog[o].rejected)

(* C7: a still-image job whose every view was rejected ends failed, with   *)
(* an error.                                                               *)
C7_TotalFailureFails ==
    \A o \in Created :
        (/\ IsStill(o)
         /\ Len(rlog[o].views) > 0
         /\ rlog[o].captured = <<>>) =>
            obj[o].status = "failed" /\ obj[o].error # NullError

(* C8: a list holding 'all' is rendered as front, back, left, right, top,  *)
(* bottom, in that order; any other list is rendered unchanged.            *)
C8_ExpandAllCanonical ==
    \A o \in Created :
        IsStill(o) =>
            rlog[o].views =
                IF "all" \in SeqToSet(obj[o].options.views)
                THEN <<"front", "back", "left", "right", "top", "bottom">>
                ELSE obj[o].options.views

(* Math.round and Math.ceil of the non-negative rational n/d *)
Round(n, d) == (2 * n + d) \div (2 * d)
Ceil(n, d) == (n + d - 1) \div d

IsGifRequest(options) ==
    /\ ~(options.format = "mp4" \/ options.turntable)
    /\ options.format = "gif" \/ "animated" \in SeqToSet(options.views)

(* C9 as claimed: a frame sequence that was captured to its end has        *)
(* round(duration * fps) frames for the requested duration and fps, frame  *)
(* i at angle i * 360 / totalFrames.                                       *)
C9_RoundedFrameCount ==
    \A o \in Created :
        (IsSequence(o) /\ rlog[o].failedAt = Never) =>
            LET total == Round(obj[o].options.durQ * obj[o].options.fps, DurDen)
            IN  /\ Len(rlog[o].captured) = total
                /\ \A i \in 1..Len(rlog[o].captured) :
                       /\ rlog[o].captured[i].frame = i - 1
                       /\ rlog[o].captured[i].an * total =
                              (i - 1) * FullTurn * rlog[o].captured[i].ad

(* C9 as amended: with duration and fps as requested for a video, and      *)
(* capped at 3 seconds and 15 frames per second for a GIF, a sequence      *)
(* captured to its end has ceil(duration * fps) frames, frame i at angle   *)
(* i * 360 / (duration * fps); when duration * fps is an integer that is   *)
(* duration * fps frames (duration 2, fps 10: 20 frames, 18 degrees apart).*)
C9_FrameCountAsCoded ==
    \A o \in Created :
        (IsSequence(o) /\ rlog[o].failedAt = Never) =>
            LET gif == IsGifRequest(obj[o].options)
                durQ == IF gif THEN Min(obj[o].options.durQ, GifMaxDuration * DurDen)
                        ELSE obj[o].options.durQ
                fps == IF gif THEN Min(obj[o].options.fps, GifMaxFps)
                       ELSE obj[o].options.fps
            IN  /\ rlog[o].mode = IF gif THEN "gif" ELSE "video"
                /\ Len(rlog[o].captured) = Ceil(durQ * fps, DurDen)
                /\ \A i \in 1..Len(rlog[o].captured) :
                       /\ rlog[o].captured[i].frame = i - 1
                       /\ rlog[o].captured[i].an * (durQ * fps) =
                              (i - 1) * FullTurn * DurDen * rlog[o].captured[i].ad

C9_Witness ==
    \E a, b \in Created :
        /\ obj[a].options = OptTurntable /\ obj[a].status = "completed"
        /\ Len(rlog[a].captured) > Round(OptTurntable.durQ * OptTurntable.fps, DurDen)
        /\ obj[b].options = OptGifLong /\ obj[b].status = "completed"
        /\ Len(rlog[b].captured) < Round(OptGifLong.durQ * OptGifLong.fps, DurDen)

(* C10: all-or-nothing frame sequences. When the capture of frame f is     *)
(* rejected, exactly the frames before f were captured, ffmpeg was never   *)
(* run and the render job is failed with a null result; ffmpeg runs only   *)
(* after the whole sequence was captured; when ffmpeg fails the render job *)
(* is failed with a null result.                                           *)
C10_AllOrNothing ==
    \A o \in Created :
        (obj[o].type = "render" /\ IsSequence(o)) =>
            /\ rlog[o].failedAt # Never =>
                   /\ Len(rlog[o].captured) = rlog[o].failedAt
                   /\ \A i \in 1..Len(rlog[o].captured) :
                          rlog[o].captured[i].frame < rlog[o].failedAt
                   /\ rlog[o].encoder = 0
                   /\ obj[o].status = "failed"
                   /\ obj[o].result = NullResult
            /\ rlog[o].encoder > 0 =>
                   /\ rlog[o].failedAt = Never
                   /\ Len(rlog[o].captured) =
                          Ceil(rlog[o].durQ * rlog[o].fps, DurDen)
            /\ rlog[o].encoderFailed =>
                   obj[o].status = "failed" /\ obj[o].result = NullResult

C10_Witness ==
    \E a, b \in Created :
        /\ IsSequence(a) /\ rlog[a].failedAt = 5 /\ Len(rlog[a].captured) = 5
        /\ obj[a].status = "failed"
        /\ IsSequence(b) /\ rlog[b].encoderFailed /\ obj[b].status = "failed"

Capturing == {o \in running : glbCall[o].stage = "frames"}

(* C12: no two jobs that are capturing or encoding at the same time have   *)
(* the same frame directory, and the frame directory of such a job exists  *)
(* (no other job's cleanup has removed it).                                *)
C12_TempDirExclusive ==
    /\ \A a, b \in Capturing : a # b => frameDir[a] # frameDir[b]
    /\ \A o \in Capturing : frameDir[o] \in temp

(* The output file names of what a renderGLB call returned *)
Artifacts(value) == {value.results[i].fileName : i \in 1..Len(value.results)}

(* The output file names the result of a job refers to *)
OutputPaths(o) ==
    IF obj[o].result = NullResult THEN {}
    ELSE IF obj[o].type = "batch"
    THEN UNION {Artifacts(obj[o].result.results[k].result) :
                    k \in {i \in 1..Len(obj[o].result.results) :
                               obj[o].result.results[i].success}}
    ELSE Artifacts(obj[o].result)

(* C13: two distinct jobs never write the same output path: the artifacts  *)
(* the results of two jobs refer to are different files.                   *)
C13_OutputPathsJobScoped ==
    \A a, b \in Created : a # b => OutputPaths(a) \cap OutputPaths(b) = {}

(* C14 as stated: after a job's terminal transition, progress is 100 if    *)
(* and only if the status is completed or failed.                          *)
C14_ProgressHundredIffCompletedOrFailed ==
    \A o \in Created :
        obj[o].status \in Terminal =>
            (obj[o].progress = 100 <=> obj[o].status \in {"completed", "failed"})

(* C14 amended: after a job's terminal transition, progress is 100 if and  *)
(* only if the job was marked completed (it is completed, or it failed     *)
(* after it had been marked completed); a job that failed otherwise has    *)
(* progress at most 95 and a cancelled job has progress 0.                 *)
C14_ProgressHundredIffMarkedCompleted ==
    \A o \in Created :
        obj[o].status \in Terminal =>
            /\ obj[o].progress = 100 <=> "completed" \in Statuses(o)
            /\ obj[o].status = "completed" => obj[o].progress = 100
            /\ (obj[o].status = "failed" /\ "completed" \notin Statuses(o)) =>
                   obj[o].progress <= 95
            /\ obj[o].status = "cancelled" => obj[o].progress = 0

C14_Witness ==
    \E a, b, c \in Created :
        /\ obj[a].status = "completed" /\ obj[a].progress = 100
        /\ obj[b].status = "failed" /\ obj[b].progress = 0
        /\ obj[c].status = "cancelled" /\ obj[c].progress = 0

(* C15: startedAt is unset until the job is moved to processing and        *)
(* completedAt until a terminal transition; whenever they are set,         *)
(* completedAt >= startedAt >= createdAt; a cancelled job has completedAt  *)
(* set and startedAt unset.                                                *)
C15_Timestamps ==
    \A o \in Created :
        /\ "processing" \notin Statuses(o) => obj[o].startedAt = Never
        /\ Statuses(o) \cap Terminal = {} => obj[o].completedAt = Never
        /\ obj[o].startedAt # Never => obj[o].startedAt >= obj[o].createdAt
        /\ (obj[o].startedAt # Never /\ obj[o].completedAt # Never) =>
               obj[o].completedAt >= obj[o].startedAt
        /\ obj[o].status = "cancelled" =>
               obj[o].completedAt # Never /\ obj[o].startedAt = Never

(* C16: the values assigned to a job's progress never decrease and stay    *)
(* within 0..100, whatever values the renderer reports through the         *)
(* progress callback.                                                      *)
C16_ProgressMonotone ==
    \A o \in Created :
        \A i \in 1..Len(plog[o]) :
            /\ plog[o][i] \in 0..100
            /\ i > 1 => plog[o][i - 1] <= plog[o][i]

(* The progress values floor(k / total * 95) for the k = 1 .. units a      *)
(* render of job o captured: views of total views, or frames of            *)
(* duration * fps frames.                                                  *)
CaptureProgress(o) ==
    IF rlog[o].mode = "images"
    THEN {(k * 95) \div Len(rlog[o].views) : k \in 1..Len(rlog[o].captured)}
    ELSE IF rlog[o].mode \in {"video", "gif"}
    THEN {(k * 95 * DurDen) \div (rlog[o].durQ * rlog[o].fps) :
              k \in 1..Len(rlog[o].captured)}
    ELSE {}

(* C18: a job's progress took the value floor(completedUnits / totalUnits  *)
(* * 95) after each view or frame its render captured; progress is at most *)
(* 95 while the job is processing and 100 once it is completed.            *)
C18_ProgressFormula ==
    \A o \in Created :
        /\ CaptureProgress(o) \subseteq SeqToSet(plog[o])
        /\ obj[o].status = "processing" => obj[o].progress <= 95
        /\ obj[o].status = "completed" => obj[o].progress = 100

(* C19: a job is in the queue if and only if its status is pending, it is  *)
(* queued at most once, and it is moved to processing at most once.        *)
C19_QueuedIffPending ==
    \A o \in Created :
        /\ o \in SeqToSet(queue) <=> obj[o].status = "pending"
        /\ Cardinality({i \in 1..Len(queue) : queue[i] = o}) <= 1
        /\ Cardinality({i \in 1..Len(hist[o]) : hist[o][i] = "processing"}) <= 1

Processing == {o \in Created : obj[o].status = "processing"}

(* C20: between operations activeJobs is the number of jobs whose status   *)
(* is processing (one increment per dispatch, one decrement on each exit   *)
(* path of processJob) and is never negative.                              *)
C20_ActiveJobsCountsProcessing ==
    /\ activeJobs = Cardinality(Processing)
    /\ activeJobs >= 0

C20_Witness ==
    \E a, b \in Created :
        /\ obj[a].status = "failed" /\ obj[a].error = "listener threw"
        /\ obj[b].status = "processing"
        /\ activeJobs = 1

(* C17: when stop() is not called, once start(renderer) has been called    *)
(* every job that is pending is eventually dispatched and completed or     *)
(* failed, unless it is cancelled.                                         *)
C17_EveryJobSettles ==
    \A o \in Objs :
        (renderer /\ obj[o].status = "pending") ~> (obj[o].status \in Terminal)

(* Every capture of the log is the call right after the positioning call   *)
(* for the same view.                                                      *)
PositionedThenCaptured(events) ==
    \A i \in 1..Len(events) :
        events[i].op = "capture" =>
            /\ i > 1
            /\ events[i - 1] = [op |-> "position", view |-> events[i].view]

(* C21: in still mode every frame is captured right after the camera was   *)
(* positioned for its view, with no positioning call for another view in   *)
(* between.                                                                *)
C21_ViewsSequential ==
    \A o \in Created : IsStill(o) => PositionedThenCaptured(rlog[o].events)

C21_Witness ==
    \E o \in Created :
        /\ IsStill(o)
        /\ obj[o].status = "completed"
        /\ Len(rlog[o].captured) >= 2
        /\ rlog[o].rejected # <<>>

RegistryKeys(o) == {k \in DOMAIN jobs : jobs[k] = o}

(* C22: every job has the id that addJob generated and returned for it, is *)
(* registered under that key and no other, started with status pending and *)
(* progress 0 and has neither result nor error while it is pending; the    *)
(* ids of distinct jobs are distinct.                                      *)
C22_GeneratedIdKept ==
    /\ \A o \in Created :
           /\ obj[o].id = uuidv4(o)
           /\ RegistryKeys(o) \subseteq {uuidv4(o)}
           /\ hist[o][1] = "pending" /\ plog[o][1] = 0
           /\ obj[o].status = "pending" =>
                  obj[o].result = NullResult /\ obj[o].error = NullError
    /\ \A a, b \in Created : a # b => obj[a].id # obj[b].id

(* C23: a job leaves processing only in the step in which its renderGLB    *)
(* call settles or in the continuation of its processJob once the call has *)
(* settled (nothing else, no timer and no cancelJob, ends it), and while   *)
(* as many calls as the concurrency limit are outstanding and none         *)
(* settles, no pending job is dispatched: pending jobs stay pending (or    *)
(* are cancelled).                                                         *)
C23_StuckCallsBlockDispatch ==
    [][ /\ \A o \in Objs :
               (obj[o].status = "processing" /\ obj'[o].status # "processing")
                   => \/ o \in running /\ o \notin running'
                      \/ /\ micro # <<>>
                         /\ Head(micro).job = o
                         /\ micro' = Tail(micro)
        /\ (Cardinality(running) = concurrency /\ running' = running) =>
               \A o \in Objs :
                   obj[o].status = "pending" =>
                       obj'[o].status \in {"pending", "cancelled"} ]_vars

C23_Witness ==
    /\ Cardinality(running) = concurrency
    /\ \E o \in Created : obj[o].status = "pending" /\ o \in SeqToSet(queue)
    /\ isProcessing /\ loops > 0 /\ renderer

(* C24: at most one processQueue invocation is in its loop at any time *)
C24_SingleDispatchLoop == loops <= 1

(* C25: while the queue is stopped (stop() was called, start() not yet     *)
(* again) no pending job is moved to processing, whatever else is called;  *)
(* stop() itself changes no job and no queue entry.                        *)
C25_StoppedQueueDispatchesNothing ==
    [][ /\ (stopped /\ stopped') =>
               \A o \in Objs :
                   \A i \in (Len(hist[o]) + 1)..Len(hist'[o]) :
                       ~(hist'[o][i] = "processing" /\ hist'[o][i - 1] = "pending")
        /\ (~stopped /\ stopped') => (obj' = obj /\ queue' = queue) ]_vars

(* C26: a job that was marked completed stays completed, keeps its result  *)
(* and has no error, also when a 'jobCompleted' listener throws.           *)
C26_CompletedStaysCompleted ==
    \A o \in Created :
        "completed" \in Statuses(o) =>
            /\ obj[o].status = "completed"
            /\ obj[o].result # NullResult
            /\ obj[o].error = NullError

Batches == {o \in Created : obj[o].type = "batch" /\ "files" \in DOMAIN obj[o]}

(* The place of fileName in files *)
FileIndex(files, fileName) == CHOOSE k \in 1..Len(files) : files[k] = fileName

(* Job o waits in the microtask queue for its processJob to go on *)
Deferred(o) ==
    \E k \in 1..Len(micro) : micro[k].job = o /\ micro[k].fn = "processJob"

(* Job o waits in the microtask queue for the catch of its refused         *)
(* renderGLB call                                                          *)
Refused(o) ==
    \E k \in 1..Len(micro) : micro[k].job = o /\ micro[k].fn = "processBatchJob"

(* C27: a batch job renders its files one at a time in input order; a file *)
(* whose pass throws is recorded as {fileName, success: false, error} and  *)
(* the loop goes on with the next file; results has one entry per file in  *)
(* input order, successful + failed = totalFiles, and the job ends         *)
(* completed with that result, however many files failed.                  *)
C27_BatchIsolatesFailures ==
    \A o \in Batches :
        LET files == obj[o].files
            calls == batch[o].calls
            results == batch[o].results
        IN  /\ \A k \in 1..Len(calls) : calls[k] \in SeqToSet(files)
            /\ \A k, l \in 1..Len(calls) :
                   k < l => FileIndex(files, calls[k]) < FileIndex(files, calls[l])
            /\ (o \in running \/ Refused(o)) =>
                   /\ calls # <<>>
                   /\ FileIndex(files, Last(calls)) = Len(results) + 1
            /\ Len(results) <= Len(files)
            /\ \A k \in 1..Len(results) :
                   /\ results[k].fileName = files[k]
                   /\ DOMAIN results[k] =
                          IF results[k].success
                          THEN {"fileName", "success", "result"}
                          ELSE {"fileName", "success", "error"}
                   /\ results[k].success => files[k] \in SeqToSet(calls)
            /\ obj[o].status = "processing" =>
                   \/ o \in running
                   \/ Refused(o)
                   \/ Deferred(o) /\ Len(results) = Len(files)
            /\ obj[o].status \in {"completed", "failed"} =>
                   /\ obj[o].status = "completed"
                   /\ obj[o].result = batchResult(files, results)
                   /\ Len(obj[o].result.results) = Len(files)
                   /\ obj[o].result.totalFiles = Len(files)
                   /\ obj[o].result.successful + obj[o].result.failed =
                          obj[o].result.totalFiles

(* return this.jobs.get(jobId) || null; 0 stands for null *)
getJob(S, jobId) == IF jobId \in DOMAIN S.jobs THEN S.jobs[jobId] ELSE 0

(* C28: whenever cleanup(maxAge) is called, the jobs it removes from the   *)
(* registry are completed, failed or cancelled jobs whose completedAt is   *)
(* older than the cutoff, never a pending or processing job; the queue,    *)
(* activeJobs and the job objects stay as they were; the value returned is *)
(* the number of jobs removed; getJob no longer finds a removed job.       *)
C28_CleanupRemovesOnlyOldSettledJobs ==
    \A maxAge \in MaxAges :
        LET call == cleanup(Q, maxAge)
            removedKeys == DOMAIN jobs \ DOMAIN call.S.jobs
            removed == {jobs[k] : k \in removedKeys}
        IN  /\ \A o \in removed :
                   /\ obj[o].status \in Terminal
                   /\ obj[o].completedAt # Never
                   /\ obj[o].completedAt < clock - maxAge
            /\ \A k \in DOMAIN call.S.jobs : call.S.jobs[k] = jobs[k]
            /\ call.S.queue = queue
            /\ call.S.activeJobs = activeJobs
            /\ call.S.obj = obj
            /\ call.ret = Cardinality(removed)
            /\ \A k \in removedKeys : getJob(call.S, k) = 0

(* C29: every renderGLB call closes the page it opened before it returns   *)
(* or throws, whether the render succeeds, the model fails to load, a      *)
(* frame capture is rejected or ffmpeg fails: every open page belongs to a *)
(* call still in progress that has got its page from newPage(), every such *)
(* call whose browser is connected still has its page, none is left when   *)
(* no call is in progress, and no more pages are open than jobs may run.   *)
C29_PagesClosed ==
    /\ pages \subseteq running
    /\ \A o \in pages : glbCall[o].stage \in {"page", "ensureDir", "frames", "close"}
    /\ \A o \in running :
           (/\ glbCall[o].stage \in {"page", "ensureDir", "frames", "close"}
            /\ glbCall[o].browser \in browser.connected) => o \in pages
    /\ running = {} => pages = {}
    /\ Cardinality(pages) <= concurrency

C29_Witness ==
    /\ running = {}
    /\ pages = {}
    /\ \E o \in Created, p \in Created :
           /\ IsSequence(o) /\ rlog[o].failedAt # Never
           /\ IsSequence(p) /\ rlog[p].encoderFailed

(* C30: getBrowser keeps one shared browser under every interleaving of    *)
(* requests, launches and disconnects: at most one puppeteer.launch is in  *)
(* flight, none is in flight while a launched browser is connected, and    *)
(* every connected browser is the one browserInstance refers to.           *)
C30_SingleSharedBrowser ==
    /\ route.launching <= 1
    /\ route.launching > 0 => route.connected = {}
    /\ \A b \in route.connected : route.browserInstance = b

====
